---- MODULE Spec2Model ----
(***************************************************************************)
(* A model of web_context_builder: the crawl engine of crawler.py (the     *)
(* frontier, the worker pool and its termination protocol), the URL        *)
(* canonicalizer and admission predicate, and the observer and storage     *)
(* state the engine drives (visualizer.py, storage.py).                    *)
(*                                                                         *)
(* Scheduling follows asyncio: a task runs until it awaits something that  *)
(* is not ready.  One action of the model is one such run.  The places     *)
(* where a worker can be suspended are the queue poll (asyncio.wait_for    *)
(* around queue.get), the HTTP request of _fetch_page, the file write of   *)
(* save_page and the inter-request sleep.  Acquiring an asyncio.Lock or    *)
(* Semaphore that is free, queue.put on an unbounded queue and the         *)
(* observer's methods do not suspend.  asyncio.wait_for hands the dequeued *)
(* item back to the worker through a separate task on some interpreter     *)
(* versions, so the item leaves the queue one scheduling step before the   *)
(* worker resumes: the model keeps that step (pc "got").                   *)
(*                                                                         *)
(* The exceptions of the model are those the try block of _process_page    *)
(* is written for: one raised by link extraction or reduction, by the file *)
(* write, or in the loop that queues the links.  The observer's            *)
(* update_page is taken not to raise.  The retries of _fetch_page are one  *)
(* step of the crawl: they change no shared state.                         *)
(*                                                                         *)
(* The specifications: Spec (FairSpec with fairness) is crawl(), from the  *)
(* seed on the queue to its return; FetchSpec is one call of _fetch_page,  *)
(* pass by pass of its retry loop, over every sequence of responses;       *)
(* CliSpec is cli.main, that is crawl() followed by the exit code and the  *)
(* merge, with user interrupts and unhandled errors; UrlSpec is            *)
(* _normalize_url on pairs of hrefs; LinkSpec (FairLinkSpec with fairness) *)
(* is crawl() on sites whose links differ in query order, fragment, letter *)
(* case or place in the document; InterruptSpec is crawl() with the        *)
(* cancellation of its tasks on KeyboardInterrupt.                         *)
(***************************************************************************)
EXTENDS Integers, Sequences, FiniteSets, TLC

(***************************************************************************)
(* Bounds of the model.                                                    *)
(***************************************************************************)
MaxWorkers == 2        \* max_concurrent ranges over 1..MaxWorkers
MaxDepthCfg == 3       \* max_depth ranges over None and 0..MaxDepthCfg
MaxRetries == 3        \* max_retries ranges over 0..MaxRetries

NoDepthLimit == -1     \* max_depth = None

(***************************************************************************)
(* URLs.  A URL string is a sequence of tokens; a parsed URL is the record *)
(* urlparse returns.  A path is a sequence of "/" and segment tokens:      *)
(* <<>> is "", <<"/">> is "/", <<"/", "a", "/">> is "/a/".                 *)
(***************************************************************************)
Raw(scheme, netloc, path, query, fragment) ==
    [scheme |-> scheme, netloc |-> netloc, path |-> path, query |-> query,
     fragment |-> fragment]

\* str.lower() on one token
Lower(t) ==
    CASE t = "A" -> "a"
      [] t = "HTTPS" -> "https"
      [] t = "Docs.Site.com" -> "docs.site.com"
      [] t = "X=1" -> "x=1"
      [] OTHER -> t

\* the order of str comparison on the query parameters of the model
ParamRank(p) ==
    CASE p = "X=1" -> 1
      [] p = "a=1" -> 2
      [] p = "a=2" -> 3
      [] p = "b=2" -> 4
      [] p = "x=1" -> 5
      [] OTHER -> 6

RECURSIVE SortedInsert(_, _)
SortedInsert(s, p) ==
    IF s = <<>> THEN <<p>>
    ELSE IF ParamRank(p) <= ParamRank(Head(s)) THEN <<p>> \o s
    ELSE <<Head(s)>> \o SortedInsert(Tail(s), p)

\* sorted(parsed.query.split("&"))
RECURSIVE SortParams(_)
SortParams(q) ==
    IF q = <<>> THEN <<>> ELSE SortedInsert(SortParams(Tail(q)), Head(q))

\* "&".join(params)
RECURSIVE JoinAmp(_)
JoinAmp(q) ==
    IF Len(q) <= 1 THEN q ELSE <<Head(q), "&">> \o JoinAmp(Tail(q))

\* WebCrawler._normalize_url applied to a parsed URL
_normalize_url(parsed) ==
    LET base == <<parsed.scheme, "://", parsed.netloc>> \o parsed.path
        stripped == IF Len(base) > 0 /\ base[Len(base)] = "/" /\ parsed.path # <<"/">>
                    THEN SubSeq(base, 1, Len(base) - 1)
                    ELSE base
        withq == IF parsed.query # <<>>
                 THEN stripped \o <<"?">> \o JoinAmp(SortParams(parsed.query))
                 ELSE stripped
    IN  [i \in 1..Len(withq) |-> Lower(withq[i])]

\* urlparse of a URL string built by _normalize_url
urlparse(url) ==
    LET rest == SubSeq(url, 4, Len(url))
        qpos == IF \E i \in 1..Len(rest) : rest[i] = "?"
                THEN CHOOSE i \in 1..Len(rest) :
                         rest[i] = "?" /\ \A j \in 1..(i - 1) : rest[j] # "?"
                ELSE Len(rest) + 1
        qtoks == SubSeq(rest, qpos + 1, Len(rest))
    IN  Raw(url[1], url[3], SubSeq(rest, 1, qpos - 1),
            [i \in 1..((Len(qtoks) + 1) \div 2) |-> qtoks[2 * i - 1]], "")

\* tldextract.extract: (subdomain, registered_domain) of a host
tldextract(netloc) ==
    CASE netloc = "docs.site.com" -> [subdomain |-> "docs", registered_domain |-> "site.com"]
      [] netloc = "api.site.com" -> [subdomain |-> "api", registered_domain |-> "site.com"]
      [] netloc = "other.org" -> [subdomain |-> "", registered_domain |-> "other.org"]
      [] OTHER -> [subdomain |-> "", registered_domain |-> ""]

\* the file extension a token ends with ("" when it ends with none)
ExtOf(t) ==
    CASE t = "paper.pdf" -> "pdf"
      [] t = "logo.png" -> "png"
      [] t = "f=a.zip" -> "zip"
      [] OTHER -> ""

\* CrawlerConfig.exclude_patterns: the extensions each pattern ends with
exclude_patterns ==
    << {"pdf", "zip", "tar", "gz", "exe", "dmg", "pkg", "deb", "rpm"},
       {"png", "jpg", "jpeg", "gif", "svg", "ico", "webp"},
       {"css", "js", "woff", "woff2", "ttf", "eot"},
       {"mp3", "mp4", "wav", "avi", "mov", "webm"} >>

\* pattern.match(url) for r".*\.(ext|...)$": the URL string ends with .ext
PatternMatch(pattern, url) == ExtOf(url[Len(url)]) \in pattern

_is_same_registered_domain(url, root_url, stay_on_subdomain) ==
    tldextract(url[3]).registered_domain = tldextract(root_url.netloc).registered_domain

\* WebCrawler._is_same_domain
_is_same_domain(url, root_url, stay_on_subdomain) ==
    LET extract == tldextract(url[3])
        root_extract == tldextract(root_url.netloc)
    IN  IF extract.registered_domain # root_extract.registered_domain THEN FALSE
        ELSE IF stay_on_subdomain /\ extract.subdomain # root_extract.subdomain THEN FALSE
        ELSE TRUE

\* url.startswith(("http://", "https://"))
StartsWithHttp(url) == url[1] \in {"http", "https"} /\ url[2] = "://"

_should_crawl_any_extension(url, root_url, stay_on_subdomain) ==
    /\ StartsWithHttp(url)
    /\ _is_same_domain(url, root_url, stay_on_subdomain)

\* WebCrawler._should_crawl
_should_crawl(url, root_url, stay_on_subdomain) ==
    /\ StartsWithHttp(url)
    /\ _is_same_domain(url, root_url, stay_on_subdomain)
    /\ ~ \E i \in 1..Len(exclude_patterns) : PatternMatch(exclude_patterns[i], url)

\* CrawlerConfig.__post_init__: root_url.rstrip("/")
RECURSIVE RStripSlash(_)
RStripSlash(path) ==
    IF path # <<>> /\ path[Len(path)] = "/"
    THEN RStripSlash(SubSeq(path, 1, Len(path) - 1))
    ELSE path

PostInit(root) ==
    IF root.query = <<>> /\ root.fragment = ""
    THEN [root EXCEPT !.path = RStripSlash(root.path)]
    ELSE root

(***************************************************************************)
(* The sites crawled.  A site gives, for the page served at a canonical    *)
(* URL, the parsed absolute targets of its <a href> elements (after        *)
(* urljoin).  A URL a site does not list serves a page without links.      *)
(***************************************************************************)
Doc(path) == Raw("https", "docs.site.com", path, <<>>, "")

Root == <<"https", "://", "docs.site.com">>
Page(path) == Root \o path

ChainSite ==
    [u \in {Root, Page(<<"/", "a">>), Page(<<"/", "b">>)} |->
        CASE u = Root -> {Doc(<<"/", "a">>)}
          [] u = Page(<<"/", "a">>) -> {Doc(<<"/", "b">>)}
          [] OTHER -> {Doc(<<"/", "c">>)}]

\* / -> /a -> /b -> / : the page at "/" is the seed's page
CycleSite ==
    [u \in {Root, Page(<<"/">>), Page(<<"/", "a">>), Page(<<"/", "b">>)} |->
        CASE u \in {Root, Page(<<"/">>)} -> {Doc(<<"/", "a">>)}
          [] u = Page(<<"/", "a">>) -> {Doc(<<"/", "b">>)}
          [] OTHER -> {Doc(<<"/">>)}]

\* links that admission must drop, a link to another subdomain, two links
\* to one page, two pages that link to one page
MixedSite ==
    [u \in {Root, Page(<<"/", "a">>), <<"https", "://", "api.site.com", "/">>} |->
        CASE u = Root ->
                 { Doc(<<"/", "a">>),
                   Raw("https", "docs.site.com", <<"/", "a", "/">>, <<>>, "top"),
                   Doc(<<"/", "paper.pdf">>),
                   Raw("https", "api.site.com", <<"/">>, <<>>, ""),
                   Raw("https", "other.org", <<"/">>, <<>>, ""),
                   Raw("ftp", "docs.site.com", <<"/", "b">>, <<>>, "") }
          [] u = Page(<<"/", "a">>) -> {Doc(<<"/", "b">>), Doc(<<>>)}
          [] OTHER -> {Doc(<<"/", "b">>)}]

\* /x is one link from /b and one link from /c, which is one level deeper
DiamondSite ==
    [u \in {Root, Page(<<"/", "a">>), Page(<<"/", "b">>), Page(<<"/", "c">>),
            Page(<<"/", "x">>)} |->
        CASE u = Root -> {Doc(<<"/", "a">>), Doc(<<"/", "b">>)}
          [] u = Page(<<"/", "a">>) -> {Doc(<<"/", "c">>)}
          [] u = Page(<<"/", "b">>) -> {Doc(<<"/", "x">>)}
          [] u = Page(<<"/", "c">>) -> {Doc(<<"/", "x">>)}
          [] OTHER -> {Doc(<<"/", "y">>)}]

\* the seed links to one page under two orders of its query parameters, with
\* a fragment, and to a page with another value of a parameter
QuerySite ==
    [u \in {Root, Root \o <<"/", "x", "?", "a=1", "&", "b=2">>} |->
        CASE u = Root ->
                 { Raw("https", "docs.site.com", <<"/", "x">>, <<"b=2", "a=1">>, ""),
                   Raw("https", "docs.site.com", <<"/", "x">>, <<"a=1", "b=2">>, ""),
                   Raw("https", "docs.site.com", <<"/", "x">>, <<"a=1", "b=2">>, "top"),
                   Raw("https", "docs.site.com", <<"/", "x">>, <<"a=2", "b=2">>, "") }
          [] OTHER -> {Doc(<<"/", "a">>)}]

\* the seed links to /A and to /a, two pages of a case-sensitive server
CaseSite ==
    [u \in {Root, Page(<<"/", "a">>)} |->
        CASE u = Root -> {Doc(<<"/", "A">>), Doc(<<"/", "a">>)}
          [] OTHER -> {Doc(<<"/", "b">>)}]

\* the <a href> elements inside the main-content element of the pages of the
\* site "nav", and those inside its <nav> and <footer> elements
NavSiteMain ==
    [u \in {Root, Page(<<"/", "a">>)} |->
        CASE u = Root -> {Doc(<<"/", "a">>)}
          [] OTHER -> {Doc(<<"/", "b">>)}]

NavSiteBoilerplate ==
    [u \in {Root, Page(<<"/", "a">>)} |->
        CASE u = Root -> {Doc(<<"/", "n">>), Doc(<<"/", "a">>)}
          [] OTHER -> {Doc(<<"/", "n">>), Doc(<<"/", "f">>)}]

\* soup.find_all("a", href=True): the elements of the whole document
NavSite == [u \in DOMAIN NavSiteMain |-> NavSiteMain[u] \cup NavSiteBoilerplate[u]]

Sites == {"chain", "cycle", "mixed", "file", "diamond"}

SiteLinks(site, url) ==
    LET pages == CASE site = "chain" -> ChainSite
                   [] site = "cycle" -> CycleSite
                   [] site = "mixed" -> MixedSite
                   [] site = "diamond" -> DiamondSite
                   [] site = "query" -> QuerySite
                   [] site = "case" -> CaseSite
                   [] site = "nav" -> NavSite
                   [] OTHER -> << >>
    IN  IF url \in DOMAIN pages THEN pages[url] ELSE {}

\* the root_url the user gives for a site
RootInput(site) ==
    IF site = "file" THEN Doc(<<"/", "paper.pdf">>) ELSE Doc(<<"/">>)

\* CrawlerConfig, for the root_url given for a site
Configs(s) ==
    { [root_url |-> PostInit(RootInput(s)), max_concurrent |-> n, max_depth |-> d,
       stay_on_subdomain |-> b] :
      n \in 1..MaxWorkers, d \in {NoDepthLimit} \cup 0..MaxDepthCfg, b \in BOOLEAN }

(***************************************************************************)
(* State.                                                                  *)
(***************************************************************************)
VARIABLES
    site,            \* the site crawled (the environment)
    config,          \* CrawlerConfig
    _seen_urls,      \* WebCrawler._seen_urls
    _queue,          \* WebCrawler._queue: the items not yet dequeued, oldest first
    unfinished,      \* asyncio.Queue._unfinished_tasks: puts minus task_done calls
    _active_tasks,   \* WebCrawler._active_tasks
    _semaphore,      \* the free permits of WebCrawler._semaphore
    pc,              \* where each worker task is suspended
    item,            \* the item each worker has dequeued
    mainpc,          \* where crawl() is
    visualizer,      \* CrawlerVisualizer: pages and stats
    _saved_files,    \* StorageManager._saved_files (the URLs)
    events,          \* history: per URL, the observer calls the engine made
    calls,           \* history: per URL, the _maybe_queue_url calls and queue puts
    fetch,           \* one call of _fetch_page: its loop and what it did
    cli,             \* cli.main: the exit code and the merged document
    norm             \* one use of _normalize_url: two hrefs and their canonical forms

vars == << site, config, _seen_urls, _queue, unfinished, _active_tasks, _semaphore,
           pc, item, mainpc, visualizer, _saved_files, events, calls, fetch, cli,
           norm >>

\* the state of the crawl: everything but the _fetch_page call
crawlvars == << site, config, _seen_urls, _queue, unfinished, _active_tasks, _semaphore,
                pc, item, mainpc, visualizer, _saved_files, events, calls, cli,
                norm >>

Workers == 1..config.max_concurrent

None == << >>                       \* parent_url of the seed
NoItem == [url |-> None, depth |-> 0, parent_url |-> None]

Terminal == {"SUCCESS", "FAILED", "SKIPPED"}

(***************************************************************************)
(* The observer (visualizer.py).                                           *)
(***************************************************************************)
\* error = None of a page record, and the messages the engine passes as error
NoError == ""
SkipReason == "Not HTML or fetch failed"
ReduceError == "str(e), e raised by _extract_links or html_to_markdown"
SaveError == "str(e), e raised by save_page"
QueueError == "str(e), e raised by _maybe_queue_url"

\* CrawlerVisualizer.add_page
add_page(vis, url, depth, parent_url) ==
    IF url \notin DOMAIN vis.pages
    THEN [pages |-> vis.pages @@
                    (url :> [depth |-> depth, status |-> "PENDING",
                             error |-> NoError, parent_url |-> parent_url]),
          stats |-> [vis.stats EXCEPT !.pages_discovered = @ + 1,
                                      !.max_depth_reached =
                                          IF depth > @ THEN depth ELSE @]]
    ELSE vis

\* CrawlerVisualizer.update_page
update_page(vis, url, status, error) ==
    IF url \in DOMAIN vis.pages
    THEN [pages |-> [vis.pages EXCEPT ![url].status = status, ![url].error = error],
          stats |-> CASE status = "SUCCESS" ->
                             [vis.stats EXCEPT !.pages_crawled = @ + 1]
                      [] status = "FAILED" ->
                             [vis.stats EXCEPT !.pages_failed = @ + 1]
                      [] status = "SKIPPED" ->
                             [vis.stats EXCEPT !.pages_skipped = @ + 1]
                      [] OTHER -> vis.stats]
    ELSE vis

\* CrawlStats.pages_remaining
pages_remaining(stats) ==
    stats.pages_discovered - stats.pages_crawled - stats.pages_failed
        - stats.pages_skipped

\* the record of one observer call in the history
Log(ev, url, e) ==
    IF url \in DOMAIN ev THEN [ev EXCEPT ![url] = Append(@, e)]
    ELSE ev @@ (url :> <<e>>)

(***************************************************************************)
(* The frontier.  fr is the part of the state _maybe_queue_url works on:   *)
(* [seen, queue, unfinished, vis, events, calls].                          *)
(***************************************************************************)
Frontier ==
    [seen |-> _seen_urls, queue |-> _queue, unfinished |-> unfinished,
     vis |-> visualizer, events |-> events, calls |-> calls]

NoCalls == [submitted |-> 0, admitted |-> 0, put |-> 0]

CallsOf(c, url) == IF url \in DOMAIN c THEN c[url] ELSE NoCalls

Count(c, url, rec) == IF url \in DOMAIN c THEN [c EXCEPT ![url] = rec] ELSE c @@ (url :> rec)

AlreadySeenNever(seen, url) == FALSE

\* url in self._seen_urls, under _url_lock
AlreadySeen(seen, url) == url \in seen

\* WebCrawler._maybe_queue_url: no await of it suspends
_maybe_queue_url(fr, url, depth, parent_url) ==
    LET old == CallsOf(fr.calls, url) IN
    IF AlreadySeen(fr.seen, url)
    THEN [fr EXCEPT !.calls = Count(@, url, [old EXCEPT !.submitted = @ + 1])]
    ELSE [seen |-> fr.seen \cup {url},
          vis |-> add_page(fr.vis, url, depth, parent_url),
          events |-> Log(fr.events, url, "discovered"),
          queue |-> Append(fr.queue, [url |-> url, depth |-> depth,
                                     parent_url |-> parent_url]),
          unfinished |-> fr.unfinished + 1,
          calls |-> Count(fr.calls, url,
                          [submitted |-> old.submitted + 1,
                           admitted |-> old.admitted + 1,
                           put |-> old.put + 1])]

\* for link in links: await self._maybe_queue_url(link, depth + 1, url)
RECURSIVE QueueLinks(_, _, _, _)
QueueLinks(fr, links, depth, parent_url) ==
    IF links = <<>> THEN fr
    ELSE QueueLinks(_maybe_queue_url(fr, Head(links), depth, parent_url),
                    Tail(links), depth, parent_url)

\* the orders in which a list(set(...)) can be iterated
Orders(S) ==
    { o \in [1..Cardinality(S) -> S] : \A i, j \in 1..Cardinality(S) : i # j => o[i] # o[j] }

\* WebCrawler._extract_links
_extract_links(s, cfg, base_url) ==
    { n \in { _normalize_url(h) : h \in SiteLinks(s, base_url) } :
        _should_crawl(n, cfg.root_url, cfg.stay_on_subdomain) }

WithinDepthInclusive(cfg, depth) ==
    cfg.max_depth = NoDepthLimit \/ depth <= cfg.max_depth

\* self.config.max_depth is None or depth < self.config.max_depth
WithinDepth(cfg, depth) == cfg.max_depth = NoDepthLimit \/ depth < cfg.max_depth

(***************************************************************************)
(* Init: crawl() up to the creation of the workers.  The seed is           *)
(* normalized and queued; no worker has run.                               *)
(***************************************************************************)
EmptyFrontier ==
    [seen |-> {}, queue |-> <<>>, unfinished |-> 0,
     vis |-> [pages |-> << >>,
              stats |-> [pages_discovered |-> 0, pages_crawled |-> 0,
                         pages_failed |-> 0, pages_skipped |-> 0,
                         max_depth_reached |-> 0]],
     events |-> << >>, calls |-> << >>]

\* await self._maybe_queue_url(normalized_root, 0, None)
QueueRoot(cfg) == _maybe_queue_url(EmptyFrontier, _normalize_url(cfg.root_url), 0, None)

SemaphoreOfOne(cfg) == 1

\* asyncio.Semaphore(config.max_concurrent)
SemaphoreCapacity(cfg) == cfg.max_concurrent

\* a _fetch_page call that is not modelled step by step
NoFetch ==
    [max_retries |-> 0, attempt |-> 0, responses |-> <<>>, sleeps |-> <<>>,
     result |-> "None"]

\* cli.main before asyncio.run(crawler.crawl(...)) returns
NoCli == [exit_code |-> 0, no_merge |-> FALSE, merges |-> 0, merged |-> <<>>,
          interrupted |-> "", error |-> "", cancelled |-> {}]

\* crawl() on the site and the config chosen
CrawlStart ==
    /\ LET fr == QueueRoot(config) IN
        /\ _seen_urls = fr.seen
        /\ _queue = fr.queue
        /\ unfinished = fr.unfinished
        /\ visualizer = fr.vis
        /\ events = fr.events
        /\ calls = fr.calls
    /\ _active_tasks = 0
    /\ _semaphore = SemaphoreCapacity(config)
    /\ pc = [w \in Workers |-> "poll"]
    /\ item = [w \in Workers |-> NoItem]
    /\ mainpc = "join"
    /\ _saved_files = <<>>

CrawlInit ==
    /\ site \in Sites
    /\ config \in Configs(site)
    /\ CrawlStart

\* no href is being normalized
NoNorm == [u |-> Doc(<<>>), v |-> Doc(<<>>), step |-> "", cu |-> <<>>, cv |-> <<>>,
           ccu |-> <<>>]

Init ==
    /\ CrawlInit
    /\ fetch = NoFetch
    /\ cli = NoCli
    /\ norm = NoNorm

(***************************************************************************)
(* The workers (WebCrawler._worker and _process_page).                     *)
(***************************************************************************)
SetFrontier(fr) ==
    /\ _seen_urls' = fr.seen
    /\ _queue' = fr.queue
    /\ unfinished' = fr.unfinished
    /\ visualizer' = fr.vis
    /\ events' = fr.events
    /\ calls' = fr.calls

task_done_missing(n) == n

\* self._queue.task_done()
task_done(n) == n - 1

DecrementMissing(n) == n

\* self._active_tasks -= 1, under _active_lock
Decrement(n) == n - 1

JoinReleasedWhenEmpty == _queue = <<>>

\* await self._queue.join() returns
JoinReleased == unfinished = 0

ShouldStopAlways == TRUE

\* the exit test of the poll timeout, under _active_lock
ShouldStop == _active_tasks = 0 /\ _queue = <<>>

\* the queue poll returns an item: it has left the queue, the worker has
\* not resumed yet
Dequeue(w) ==
    /\ mainpc \in {"join", "cancel"}
    /\ pc[w] = "poll"
    /\ _queue # <<>>
    /\ item' = [item EXCEPT ![w] = Head(_queue)]
    /\ _queue' = Tail(_queue)
    /\ pc' = [pc EXCEPT ![w] = "got"]
    /\ UNCHANGED << norm, fetch, cli, site, config, _seen_urls, unfinished, _active_tasks, _semaphore,
                    mainpc, visualizer, _saved_files, events, calls >>

\* the queue poll times out
PollTimeout(w) ==
    /\ mainpc \in {"join", "cancel"}
    /\ pc[w] = "poll"
    /\ pc' = IF ShouldStop THEN [pc EXCEPT ![w] = "exited"] ELSE pc
    /\ UNCHANGED << norm, fetch, cli, site, config, _seen_urls, _queue, unfinished, _active_tasks,
                    _semaphore, item, mainpc, visualizer, _saved_files, events, calls >>

\* the worker resumes with its item: the counter, the permit, CRAWLING, and
\* the request of _fetch_page is sent
Begin(w) ==
    /\ pc[w] = "got"
    /\ _semaphore > 0
    /\ _active_tasks' = _active_tasks + 1
    /\ _semaphore' = _semaphore - 1
    /\ visualizer' = update_page(visualizer, item[w].url, "CRAWLING", NoError)
    /\ events' = Log(events, item[w].url, "CRAWLING")
    /\ pc' = [pc EXCEPT ![w] = "fetch"]
    /\ UNCHANGED << norm, fetch, cli, site, config, _seen_urls, _queue, unfinished, item, mainpc,
                    _saved_files, calls >>

\* the way out of _process_page and the finally block of _worker, after the
\* terminal status `status` (or none) was announced on top of fr
Finish(w, fr, status, error) ==
    /\ SetFrontier([fr EXCEPT
           !.vis = IF status = "" THEN @ ELSE update_page(@, item[w].url, status, error),
           !.events = IF status = "" THEN @ ELSE Log(@, item[w].url, status),
           !.unfinished = task_done(@)])
    /\ _semaphore' = _semaphore + 1
    /\ _active_tasks' = Decrement(_active_tasks)
    /\ pc' = [pc EXCEPT ![w] = "poll"]
    /\ item' = [item EXCEPT ![w] = NoItem]

FetchEmptySaves(w) ==
    /\ pc[w] = "fetch"
    /\ _saved_files' = Append(_saved_files, item[w].url)
    /\ Finish(w, Frontier, "SKIPPED", SkipReason)
    /\ UNCHANGED << norm, fetch, cli, site, config, mainpc >>

\* _fetch_page returns None
FetchEmpty(w) ==
    /\ pc[w] = "fetch"
    /\ Finish(w, Frontier, "SKIPPED", SkipReason)
    /\ UNCHANGED << norm, fetch, cli, site, config, mainpc, _saved_files >>

ReduceRaisesLinksQueued(w) ==
    /\ pc[w] = "fetch"
    /\ \E order \in Orders(_extract_links(site, config, item[w].url)) :
          Finish(w, QueueLinks(Frontier, order, item[w].depth + 1, item[w].url),
                 "FAILED", ReduceError)
    /\ UNCHANGED << norm, fetch, cli, site, config, mainpc, _saved_files >>

\* _fetch_page returns HTML, but _extract_links or html_to_markdown raises
ReduceRaises(w) ==
    /\ pc[w] = "fetch"
    /\ Finish(w, Frontier, "FAILED", ReduceError)
    /\ UNCHANGED << norm, fetch, cli, site, config, mainpc, _saved_files >>

\* _fetch_page returns HTML, links and markdown are computed and save_page
\* starts writing the file
FetchHtml(w) ==
    /\ pc[w] = "fetch"
    /\ pc' = [pc EXCEPT ![w] = "save"]
    /\ UNCHANGED << norm, fetch, cli, site, config, _seen_urls, _queue, unfinished, _active_tasks,
                    _semaphore, item, mainpc, visualizer, _saved_files, events, calls >>

SaveRaisesUncaught(w) ==
    /\ pc[w] = "save"
    /\ SetFrontier([Frontier EXCEPT !.unfinished = @ - 1])
    /\ _semaphore' = _semaphore + 1
    /\ _active_tasks' = _active_tasks - 1
    /\ pc' = [pc EXCEPT ![w] = "exited"]
    /\ item' = [item EXCEPT ![w] = NoItem]
    /\ UNCHANGED << norm, fetch, cli, site, config, mainpc, _saved_files >>

\* the file write of save_page raises
SaveRaises(w) ==
    /\ pc[w] = "save"
    /\ Finish(w, Frontier, "FAILED", SaveError)
    /\ UNCHANGED << norm, fetch, cli, site, config, mainpc, _saved_files >>

SucceededUnannounced(w) == Frontier

\* the state after save_page returned and SUCCESS was announced
Succeeded(w) ==
    [Frontier EXCEPT !.vis = update_page(@, item[w].url, "SUCCESS", NoError),
                     !.events = Log(@, item[w].url, "SUCCESS")]

ChildDepthSame(depth) == depth

\* the child depth passed to _maybe_queue_url
ChildDepth(depth) == depth + 1

\* save_page returns, SUCCESS is announced, the links are queued and the
\* inter-request sleep starts
SaveDone(w) ==
    /\ pc[w] = "save"
    /\ _saved_files' = Append(_saved_files, item[w].url)
    /\ \E order \in Orders(_extract_links(site, config, item[w].url)) :
          SetFrontier(IF WithinDepth(config, item[w].depth)
                      THEN QueueLinks(Succeeded(w), order, ChildDepth(item[w].depth),
                                      item[w].url)
                      ELSE Succeeded(w))
    /\ pc' = [pc EXCEPT ![w] = "delay"]
    /\ UNCHANGED << norm, fetch, cli, site, config, _active_tasks, _semaphore, item, mainpc >>

\* as SaveDone, but the k-th _maybe_queue_url call raises before it changes
\* anything: the handler announces FAILED
QueueRaises(w) ==
    /\ pc[w] = "save"
    /\ WithinDepth(config, item[w].depth)
    /\ _saved_files' = Append(_saved_files, item[w].url)
    /\ \E order \in Orders(_extract_links(site, config, item[w].url)) :
       \E k \in 1..Len(order) :
          Finish(w, QueueLinks(Succeeded(w), SubSeq(order, 1, k - 1),
                               ChildDepth(item[w].depth), item[w].url),
                 "FAILED", QueueError)
    /\ UNCHANGED << norm, fetch, cli, site, config, mainpc >>

\* the inter-request sleep ends
DelayDone(w) ==
    /\ pc[w] = "delay"
    /\ Finish(w, Frontier, "", NoError)
    /\ UNCHANGED << norm, fetch, cli, site, config, mainpc, _saved_files >>

\* CancelledError reaches a worker suspended in the queue poll
Cancelled(w) ==
    /\ mainpc = "gather"
    /\ pc[w] = "poll"
    /\ pc' = [pc EXCEPT ![w] = "exited"]
    /\ UNCHANGED << norm, fetch, cli, site, config, _seen_urls, _queue, unfinished, _active_tasks,
                    _semaphore, item, mainpc, visualizer, _saved_files, events, calls >>

\* everything worker w can do
Worker(w) ==
    /\ w \in Workers
    /\ \/ Dequeue(w)
       \/ PollTimeout(w)
       \/ Begin(w)
       \/ FetchEmpty(w)
       \/ ReduceRaises(w)
       \/ FetchHtml(w)
       \/ SaveRaises(w)
       \/ SaveDone(w)
       \/ QueueRaises(w)
       \/ DelayDone(w)
       \/ Cancelled(w)

(***************************************************************************)
(* crawl(): the join barrier, the cancellation of the workers, the return. *)
(***************************************************************************)
JoinReturns ==
    /\ mainpc = "join"
    /\ JoinReleased
    /\ mainpc' = "gather"
    /\ UNCHANGED << norm, fetch, cli, site, config, _seen_urls, _queue, unfinished, _active_tasks,
                    _semaphore, pc, item, visualizer, _saved_files, events, calls >>

GatherReturns ==
    /\ mainpc = "gather"
    /\ \A w \in Workers : pc[w] = "exited"
    /\ mainpc' = "done"
    /\ UNCHANGED << norm, fetch, cli, site, config, _seen_urls, _queue, unfinished, _active_tasks,
                    _semaphore, pc, item, visualizer, _saved_files, events, calls >>

Next ==
    \/ \E w \in Workers : Dequeue(w)
    \/ \E w \in Workers : PollTimeout(w)
    \/ \E w \in Workers : Begin(w)
    \/ \E w \in Workers : FetchEmpty(w)
    \/ \E w \in Workers : ReduceRaises(w)
    \/ \E w \in Workers : FetchHtml(w)
    \/ \E w \in Workers : SaveRaises(w)
    \/ \E w \in Workers : SaveDone(w)
    \/ \E w \in Workers : QueueRaises(w)
    \/ \E w \in Workers : DelayDone(w)
    \/ \E w \in Workers : Cancelled(w)
    \/ JoinReturns
    \/ GatherReturns

Spec == Init /\ [][Next]_vars

\* The event loop runs every task that is ready, and every request, file
\* write, sleep and poll ends (each has a timeout or is finite).
FairSpec ==
    /\ Spec
    /\ \A w \in 1..MaxWorkers : WF_vars(Worker(w))
    /\ WF_vars(JoinReturns)
    /\ WF_vars(GatherReturns)

(***************************************************************************)
(* _fetch_page, one call of it step by step.  A step is one pass of the    *)
(* retry loop: the request, the response or exception the session gives    *)
(* back, and what the loop does with it.  fetch holds the call:            *)
(* max_retries, the attempt number, the responses received, the backoff    *)
(* sleeps made and the result ("running", "body" or "None").               *)
(***************************************************************************)
\* a crawler whose worker calls _fetch_page for the seed
FetchInit ==
    /\ CrawlInit
    /\ site = "chain"
    /\ config.max_concurrent = 1
    /\ config.max_depth = NoDepthLimit
    /\ config.stay_on_subdomain
    /\ cli = NoCli
    /\ norm = NoNorm
    /\ fetch \in { [max_retries |-> m, attempt |-> 0, responses |-> <<>>,
                     sleeps |-> <<>>, result |-> "running"] : m \in 0..MaxRetries }

Statuses == {200, 204, 403, 404, 410, 500, 503}

Exceptions == {"TimeoutError", "ClientError", "Exception"}

\* what session.get gives back: a response (status, Content-Type with
\* text/html or without) or an exception
Responses ==
    { [exc |-> "", status |-> s, html |-> h] : s \in Statuses, h \in BOOLEAN }
      \cup { [exc |-> e, status |-> 0, html |-> FALSE] : e \in Exceptions }

\* for attempt in range(self.config.max_retries): the loop has a pass left
Attempting == fetch.result = "running" /\ fetch.attempt < fetch.max_retries

\* return from the pass that received r
Return(r, result) ==
    /\ fetch' = [fetch EXCEPT !.responses = Append(@, r), !.result = result]
    /\ UNCHANGED crawlvars

\* continue: the next pass, after the sleeps made in this one
Continue(r, slept) ==
    /\ fetch' = [fetch EXCEPT !.responses = Append(@, r), !.sleeps = @ \o slept,
                              !.attempt = @ + 1]
    /\ UNCHANGED crawlvars

\* await asyncio.sleep(2**attempt)
Backoff(attempt) == <<2 ^ attempt>>

\* if attempt < self.config.max_retries - 1
MoreAttempts(attempt, max_retries) == attempt < max_retries - 1

RetryNever(status) == FALSE

RetryClientErrors(status) == status >= 400

\* if response.status >= 500
RetryStatus(status) == status >= 500

\* "text/html" not in content_type.lower(): return None
FetchNotHtml ==
    /\ Attempting
    /\ \E r \in Responses : r.exc = "" /\ ~ r.html /\ Return(r, "None")

\* response.status == 200: return await response.text()
FetchOk ==
    /\ Attempting
    /\ \E r \in Responses : r.exc = "" /\ r.html /\ r.status = 200 /\ Return(r, "body")

\* response.status in (404, 410): return None
FetchGone ==
    /\ Attempting
    /\ \E r \in Responses :
          r.exc = "" /\ r.html /\ r.status \in {404, 410} /\ Return(r, "None")

\* response.status >= 500: sleep and continue
FetchServerError ==
    /\ Attempting
    /\ \E r \in Responses :
          /\ r.exc = "" /\ r.html /\ r.status \notin {200, 404, 410}
          /\ RetryStatus(r.status)
          /\ Continue(r, Backoff(fetch.attempt))

\* any other status: return None
FetchOtherStatus ==
    /\ Attempting
    /\ \E r \in Responses :
          /\ r.exc = "" /\ r.html /\ r.status \notin {200, 404, 410}
          /\ ~ RetryStatus(r.status)
          /\ Return(r, "None")

\* except asyncio.TimeoutError / except aiohttp.ClientError: sleep if an
\* attempt is left, continue
FetchTransientError ==
    /\ Attempting
    /\ \E r \in Responses :
          /\ r.exc \in {"TimeoutError", "ClientError"}
          /\ Continue(r, IF MoreAttempts(fetch.attempt, fetch.max_retries)
                         THEN Backoff(fetch.attempt) ELSE <<>>)

\* except Exception: return None
FetchException ==
    /\ Attempting
    /\ \E r \in Responses : r.exc = "Exception" /\ Return(r, "None")

\* the loop ends: return None
FetchExhausted ==
    /\ fetch.result = "running"
    /\ fetch.attempt >= fetch.max_retries
    /\ fetch' = [fetch EXCEPT !.result = "None"]
    /\ UNCHANGED crawlvars

FetchNext ==
    \/ FetchNotHtml
    \/ FetchOk
    \/ FetchGone
    \/ FetchServerError
    \/ FetchOtherStatus
    \/ FetchTransientError
    \/ FetchException
    \/ FetchExhausted

FetchSpec == FetchInit /\ [][FetchNext]_vars

(***************************************************************************)
(* cli.main: asyncio.run(crawler.crawl(...)), the exit on zero pages, the  *)
(* merge unless --no-merge, the exit codes.  A KeyboardInterrupt or an     *)
(* exception ends the run wherever main is.  cli holds the exit code (read *)
(* when mainpc is "exit"), the --no-merge flag once main has read it, the  *)
(* number of merge_results calls, the merged document (the URLs of its     *)
(* sections in order) and what ended the run early.                        *)
(***************************************************************************)
\* the order of str comparison on the tokens of the URLs of the model
TokenRank(t) ==
    CASE t = "/" -> 1
      [] t = "://" -> 2
      [] t = "a" -> 3
      [] t = "api.site.com" -> 4
      [] t = "b" -> 5
      [] t = "c" -> 6
      [] t = "docs.site.com" -> 7
      [] t = "https" -> 8
      [] t = "paper.pdf" -> 9
      [] t = "x" -> 10
      [] t = "y" -> 11
      [] OTHER -> 12

\* u < v on URL strings
RECURSIVE UrlLess(_, _)
UrlLess(u, v) ==
    IF u = <<>> THEN v # <<>>
    ELSE IF v = <<>> THEN FALSE
    ELSE IF Head(u) = Head(v) THEN UrlLess(Tail(u), Tail(v))
    ELSE TokenRank(Head(u)) < TokenRank(Head(v))

RECURSIVE InsertUrl(_, _)
InsertUrl(s, u) ==
    IF s = <<>> THEN <<u>>
    ELSE IF UrlLess(u, Head(s)) THEN <<u>> \o s
    ELSE <<Head(s)>> \o InsertUrl(Tail(s), u)

\* files.sort(key=lambda x: x[0])
RECURSIVE SortUrls(_)
SortUrls(files) ==
    IF files = <<>> THEN <<>>
    ELSE InsertUrl(SortUrls(SubSeq(files, 1, Len(files) - 1)), files[Len(files)])

merge_all_but_last(files) == SortUrls(SubSeq(files, 1, Len(files) - 1))

\* StorageManager.merge_all: one section per saved file, sorted by URL
merge_all(files) == SortUrls(files)

\* sys.exit(code), or the return of main (code 0)
Exit(code, rec) ==
    /\ cli' = [rec EXCEPT !.exit_code = code]
    /\ mainpc' = "exit"
    /\ UNCHANGED << norm, fetch, site, config, _seen_urls, _queue, unfinished, _active_tasks,
                    _semaphore, pc, item, visualizer, _saved_files, events, calls >>

ExitNoPagesWithZero ==
    /\ mainpc = "done"
    /\ Len(_saved_files) = 0
    /\ Exit(0, cli)

\* if pages_crawled == 0: sys.exit(1)
ExitNoPages ==
    /\ mainpc = "done"
    /\ Len(_saved_files) = 0
    /\ Exit(1, cli)

\* if not no_merge: asyncio.run(crawler.merge_results()) starts
MergeStarts ==
    /\ mainpc = "done"
    /\ Len(_saved_files) # 0
    /\ cli' = [cli EXCEPT !.no_merge = FALSE, !.merges = @ + 1]
    /\ mainpc' = "merge"
    /\ UNCHANGED << norm, fetch, site, config, _seen_urls, _queue, unfinished, _active_tasks,
                    _semaphore, pc, item, visualizer, _saved_files, events, calls >>

\* merge_results returns; main returns
MergeReturns ==
    /\ mainpc = "merge"
    /\ Exit(0, [cli EXCEPT !.merged = merge_all(_saved_files)])

\* merge_results raises: except Exception, sys.exit(1)
MergeRaises ==
    /\ mainpc = "merge"
    /\ Exit(1, [cli EXCEPT !.error = "merge_results"])

\* --no-merge: main returns
NoMerge ==
    /\ mainpc = "done"
    /\ Len(_saved_files) # 0
    /\ Exit(0, [cli EXCEPT !.no_merge = TRUE])

\* crawl() raises after its workers are gathered (stopping the display,
\* printing the summary, closing the session): except Exception, sys.exit(1)
CrawlRaises ==
    /\ mainpc = "gather"
    /\ \A w \in Workers : pc[w] = "exited"
    /\ Exit(1, [cli EXCEPT !.error = "crawl"])

\* KeyboardInterrupt, wherever main is: sys.exit(130)
Interrupt ==
    /\ mainpc \in {"join", "gather", "done", "merge"}
    /\ Exit(130, [cli EXCEPT !.interrupted = mainpc])

CliNext ==
    \/ Next
    \/ ExitNoPages
    \/ MergeStarts
    \/ MergeReturns
    \/ MergeRaises
    \/ NoMerge
    \/ CrawlRaises
    \/ Interrupt

CliSpec == Init /\ [][CliNext]_vars

(***************************************************************************)
(* _normalize_url, applied to the links of a page.  norm holds two parsed  *)
(* hrefs u and v (v differs from u in one component), their canonical      *)
(* forms cu and cv, and ccu, the canonical form of cu.                     *)
(***************************************************************************)
Schemes == {"https", "HTTPS"}

Hosts == {"docs.site.com", "Docs.Site.com"}

\* "", "/", "/a", "/a/", "/a//", "//", "/A"
Paths ==
    { <<>>, <<"/">>, <<"/", "a">>, <<"/", "a", "/">>, <<"/", "a", "/", "/">>,
      <<"/", "/">>, <<"/", "A">> }

Queries ==
    { <<>>, <<"a=1">>, <<"a=1", "b=2">>, <<"b=2", "a=1">>, <<"a=2", "b=2">>,
      <<"X=1">>, <<"x=1">> }

Fragments == {"", "top"}

\* the hrefs of the model, after urljoin and urlparse
RawUrls ==
    { Raw(s, n, p, q, f) :
        s \in Schemes, n \in Hosts, p \in Paths, q \in Queries, f \in Fragments }

\* the hrefs that differ from u in at most one component
Variants(u) ==
    { [u EXCEPT !.path = p] : p \in Paths }
      \cup { [u EXCEPT !.query = q] : q \in Queries }
      \cup { [u EXCEPT !.fragment = f] : f \in Fragments }
      \cup { [u EXCEPT !.scheme = s] : s \in Schemes }
      \cup { [u EXCEPT !.netloc = n] : n \in Hosts }

UrlInit ==
    /\ CrawlInit
    /\ site = "chain"
    /\ config.max_concurrent = 1
    /\ config.max_depth = NoDepthLimit
    /\ config.stay_on_subdomain
    /\ fetch = NoFetch
    /\ cli = NoCli
    /\ \E u \in RawUrls : \E v \in Variants(u) :
          norm = [u |-> u, v |-> v, step |-> "href", cu |-> <<>>, cv |-> <<>>,
                  ccu |-> <<>>]

\* normalized = self._normalize_url(absolute_url), for both hrefs
Normalize ==
    /\ norm.step = "href"
    /\ norm' = [norm EXCEPT !.step = "normalized",
                            !.cu = _normalize_url(norm.u),
                            !.cv = _normalize_url(norm.v)]
    /\ UNCHANGED << fetch, cli, site, config, _seen_urls, _queue, unfinished,
                    _active_tasks, _semaphore, pc, item, mainpc, visualizer,
                    _saved_files, events, calls >>

\* _normalize_url applied to a canonical form
Renormalize ==
    /\ norm.step = "normalized"
    /\ norm' = [norm EXCEPT !.step = "again",
                            !.ccu = _normalize_url(urlparse(norm.cu))]
    /\ UNCHANGED << fetch, cli, site, config, _seen_urls, _queue, unfinished,
                    _active_tasks, _semaphore, pc, item, mainpc, visualizer,
                    _saved_files, events, calls >>

UrlNext ==
    \/ Normalize
    \/ Renormalize

UrlSpec == UrlInit /\ [][UrlNext]_vars

(***************************************************************************)
(* The crawl of the sites whose links differ in query order, fragment or   *)
(* letter case and whose pages have links outside the main content; with  *)
(* no depth limit.                                                         *)
(***************************************************************************)
LinkSites == {"query", "case", "nav"}

LinkConfigs(s) ==
    { cfg \in Configs(s) : cfg.max_depth = NoDepthLimit /\ cfg.stay_on_subdomain }

LinkInit ==
    /\ site \in LinkSites
    /\ config \in LinkConfigs(site)
    /\ CrawlStart
    /\ fetch = NoFetch
    /\ cli = NoCli
    /\ norm = NoNorm

LinkSpec == LinkInit /\ [][Next]_vars

(***************************************************************************)
(* KeyboardInterrupt during asyncio.run(crawler.crawl(...)): the loop is   *)
(* stopped, asyncio.run cancels every task that is not done (crawl() and   *)
(* the workers, in one go: cli.cancelled), runs the loop until they have   *)
(* ended, and re-raises; cli.main exits with 130.  The CancelledError is   *)
(* raised in a task at the await it is suspended at.                       *)
(***************************************************************************)
InterruptInit ==
    /\ site = "chain"
    /\ config \in LinkConfigs(site)
    /\ CrawlStart
    /\ fetch = NoFetch
    /\ cli = NoCli
    /\ norm = NoNorm

\* the workers that no pending cancellation stops
Running == Workers \ cli.cancelled

KeyboardInterrupt ==
    /\ mainpc \in {"join", "gather"}
    /\ cli' = [cli EXCEPT !.interrupted = mainpc,
                          !.cancelled = {w \in Workers : pc[w] # "exited"}]
    /\ mainpc' = "cancel"
    /\ UNCHANGED << norm, fetch, site, config, _seen_urls, _queue, unfinished,
                    _active_tasks, _semaphore, pc, item, visualizer, _saved_files,
                    events, calls >>

\* CancelledError at the poll: except asyncio.CancelledError: return
CancelledAtPoll(w) ==
    /\ w \in cli.cancelled
    /\ pc[w] = "poll"
    /\ pc' = [pc EXCEPT ![w] = "exited"]
    /\ cli' = [cli EXCEPT !.cancelled = @ \ {w}]
    /\ UNCHANGED << norm, fetch, site, config, _seen_urls, _queue, unfinished,
                    _active_tasks, _semaphore, item, mainpc, visualizer, _saved_files,
                    events, calls >>

\* CancelledError when the poll has an item for the worker, where wait_for
\* raises it (the item is in the queue again)
CancelledAtGot(w) ==
    /\ w \in cli.cancelled
    /\ pc[w] = "got"
    /\ _queue' = <<item[w]>> \o _queue
    /\ item' = [item EXCEPT ![w] = NoItem]
    /\ pc' = [pc EXCEPT ![w] = "exited"]
    /\ cli' = [cli EXCEPT !.cancelled = @ \ {w}]
    /\ UNCHANGED << norm, fetch, site, config, _seen_urls, unfinished, _active_tasks,
                    _semaphore, mainpc, visualizer, _saved_files, events, calls >>

\* the same, where wait_for returns the item and drops the cancellation
\* (Python <= 3.11): the worker goes on
CancelSwallowed(w) ==
    /\ w \in cli.cancelled
    /\ pc[w] = "got"
    /\ cli' = [cli EXCEPT !.cancelled = @ \ {w}]
    /\ UNCHANGED << norm, fetch, site, config, _seen_urls, _queue, unfinished,
                    _active_tasks, _semaphore, pc, item, mainpc, visualizer,
                    _saved_files, events, calls >>

CancelledInPageNoFinally(w) ==
    /\ w \in cli.cancelled
    /\ pc[w] \in {"fetch", "save", "delay"}
    /\ _semaphore' = _semaphore + 1
    /\ pc' = [pc EXCEPT ![w] = "exited"]
    /\ item' = [item EXCEPT ![w] = NoItem]
    /\ cli' = [cli EXCEPT !.cancelled = @ \ {w}]
    /\ UNCHANGED << norm, fetch, site, config, _seen_urls, _queue, unfinished,
                    _active_tasks, mainpc, visualizer, _saved_files, events, calls >>

\* CancelledError inside _process_page (at the request, the file write or
\* the sleep): no except Exception catches it, the permit is released, the
\* finally block of _worker runs, the worker returns
CancelledInPage(w) ==
    /\ w \in cli.cancelled
    /\ pc[w] \in {"fetch", "save", "delay"}
    /\ _semaphore' = _semaphore + 1
    /\ unfinished' = task_done(unfinished)
    /\ _active_tasks' = Decrement(_active_tasks)
    /\ pc' = [pc EXCEPT ![w] = "exited"]
    /\ item' = [item EXCEPT ![w] = NoItem]
    /\ cli' = [cli EXCEPT !.cancelled = @ \ {w}]
    /\ UNCHANGED << norm, fetch, site, config, _seen_urls, _queue, mainpc, visualizer,
                    _saved_files, events, calls >>

\* every task has ended: asyncio.run re-raises KeyboardInterrupt, sys.exit(130)
LoopStops ==
    /\ mainpc = "cancel"
    /\ \A w \in Workers : pc[w] = "exited"
    /\ Exit(130, cli)

InterruptNext ==
    \/ \E w \in Running : Dequeue(w)
    \/ \E w \in Running : PollTimeout(w)
    \/ \E w \in Running : Begin(w)
    \/ \E w \in Running : FetchEmpty(w)
    \/ \E w \in Running : ReduceRaises(w)
    \/ \E w \in Running : FetchHtml(w)
    \/ \E w \in Running : SaveRaises(w)
    \/ \E w \in Running : SaveDone(w)
    \/ \E w \in Running : QueueRaises(w)
    \/ \E w \in Running : DelayDone(w)
    \/ \E w \in Running : Cancelled(w)
    \/ JoinReturns
    \/ GatherReturns
    \/ KeyboardInterrupt
    \/ \E w \in Workers : CancelledAtPoll(w)
    \/ \E w \in Workers : CancelledAtGot(w)
    \/ \E w \in Workers : CancelSwallowed(w)
    \/ \E w \in Workers : CancelledInPage(w)
    \/ LoopStops

InterruptSpec == InterruptInit /\ [][InterruptNext]_vars

(***************************************************************************)
(* Properties.                                                             *)
(***************************************************************************)
seed == _normalize_url(config.root_url)

EventsOf(url) == IF url \in DOMAIN events THEN events[url] ELSE <<>>

CountEv(log, S) == Cardinality({i \in 1..Len(log) : log[i] \in S})

Pushed == {u \in DOMAIN calls : calls[u].put > 0}

StatusOf(url) == visualizer.pages[url].status

\* C1: whatever the interleaving of the workers' _maybe_queue_url calls, a
\* canonical URL that was submitted (once or several times) was admitted by
\* exactly one call (one True), announced as discovered once and put on the
\* queue once; it is never twice in the queue or in workers' hands.
C1_AdmittedOnce ==
    /\ \A u \in DOMAIN calls :
          /\ calls[u].submitted >= 1
          /\ calls[u].admitted = 1
          /\ calls[u].put = 1
          /\ CountEv(EventsOf(u), {"discovered"}) = 1
          /\ u \in _seen_urls
    /\ \A i, j \in 1..Len(_queue) : i # j => _queue[i].url # _queue[j].url
    /\ \A w \in Workers : \A i \in 1..Len(_queue) : item[w].url # _queue[i].url
    /\ \A v, w \in Workers : v # w /\ item[v] # NoItem => item[v].url # item[w].url

\* C1 witness: with two workers, the two pages that link to /b have both
\* submitted it
C1_Witness ==
    /\ config.max_concurrent >= 2
    /\ site = "mixed"
    /\ CallsOf(calls, Page(<<"/", "b">>)).submitted = 2

\* C2: every URL ever put on the queue has had at most one terminal observer
\* event at any time and exactly one when crawl() returns.
C2_OneTerminalEvent ==
    /\ \A u \in Pushed : CountEv(EventsOf(u), Terminal) <= 1
    /\ mainpc = "done" => \A u \in Pushed : CountEv(EventsOf(u), Terminal) = 1

StatusRank(st) ==
    CASE st = "PENDING" -> 0
      [] st = "CRAWLING" -> 1
      [] OTHER -> 2

Lifecycles ==
    { <<"discovered">>, <<"discovered", "CRAWLING">> }
      \cup { <<"discovered", "CRAWLING", t>> : t \in Terminal }

\* in one step, no page record moves backwards or leaves a terminal status
StatusMonotonic ==
    \A u \in DOMAIN visualizer.pages :
        /\ u \in DOMAIN visualizer'.pages
        /\ StatusRank(visualizer'.pages[u].status) >= StatusRank(StatusOf(u))
        /\ StatusOf(u) \in Terminal => visualizer'.pages[u].status = StatusOf(u)

\* a queued item was announced as discovered, and nothing else, before
DiscoveredBeforePush ==
    \A i \in 1..Len(_queue) : EventsOf(_queue[i].url) = <<"discovered">>

\* C3: per URL the observer events are discovered, CRAWLING, one terminal
\* status, in this order; discovered comes once and before the push; the
\* status of a page record is monotonic.
C3_Lifecycle ==
    /\ [](\A u \in DOMAIN events : events[u] \in Lifecycles)
    /\ []DiscoveredBeforePush
    /\ [][StatusMonotonic]_vars

\* C4: under fair scheduling crawl() returns, with every admitted URL
\* dequeued and completed.
C4_Terminates ==
    <>(/\ mainpc = "done"
       /\ _queue = <<>>
       /\ unfinished = 0
       /\ \A u \in _seen_urls : CountEv(EventsOf(u), Terminal) >= 1)

\* C4 witness: crawl() has returned on the site with the link cycle, all of
\* its pages crawled
C4_Witness ==
    /\ mainpc = "done"
    /\ site = "cycle"
    /\ Len(_saved_files) >= 3

\* no worker holds an item
NoneProcessing == \A w \in Workers : pc[w] \in {"poll", "exited"} /\ item[w] = NoItem

\* C5: once crawl() is past its join barrier (cancelling, gathering or
\* returned), the queue is empty and no worker holds an item.
C5_JoinBarrier == mainpc # "join" => _queue = <<>> /\ NoneProcessing

\* C5 witness: the barrier is passed after several pages were processed
C5_Witness == mainpc = "gather" /\ Len(_saved_files) >= 2

\* C6: a worker that exits through the poll-timeout check does so in a state
\* where the queue is empty and no other worker holds a dequeued item.
C6_ExitOnlyWhenIdle ==
    [][\A w \in Workers :
          pc[w] = "poll" /\ pc'[w] = "exited" /\ mainpc = "join" =>
              /\ _queue = <<>>
              /\ \A v \in Workers \ {w} : pc[v] \in {"poll", "exited"}]_vars

\* C7: when crawl() has returned, _active_tasks is 0.
C7_CounterZero == mainpc = "done" => _active_tasks = 0

\* C7 witness: crawl() has returned after pages were processed by two workers
C7_Witness ==
    /\ mainpc = "done"
    /\ config.max_concurrent >= 2
    /\ Len(_saved_files) >= 2

DepthOf(url) == visualizer.pages[url].depth

Succeededs == {u \in DOMAIN visualizer.pages : StatusOf(u) = "SUCCESS"}

\* C8: with max_depth set, no admitted, queued or dequeued item is deeper
\* than max_depth; the admissible links of a page that succeeded at depth d
\* are all admitted when d + 1 <= max_depth; with max_depth = 0 nothing but
\* the seed is ever admitted; on the chain with max_depth = 1 a run without
\* failures ends with exactly / and /a at SUCCESS.
C8_DepthLimit ==
    /\ config.max_depth # NoDepthLimit =>
          /\ \A u \in DOMAIN visualizer.pages : DepthOf(u) <= config.max_depth
          /\ \A i \in 1..Len(_queue) : _queue[i].depth <= config.max_depth
          /\ \A w \in Workers : item[w].depth <= config.max_depth
    /\ \A u \in Succeededs :
          (config.max_depth = NoDepthLimit \/ DepthOf(u) + 1 <= config.max_depth)
              => _extract_links(site, config, u) \subseteq _seen_urls
    /\ config.max_depth = 0 => _seen_urls = {seed}
    /\ (config.max_depth = 0 /\ mainpc = "done")
          => CountEv(EventsOf(seed), {"CRAWLING"}) = 1
    /\ (site = "chain" /\ config.max_depth = 1 /\ mainpc = "done"
            /\ \A u \in DOMAIN visualizer.pages : StatusOf(u) = "SUCCESS")
          => Succeededs = {Root, Page(<<"/", "a">>)}

\* C8 witness: the chain crawled to the end with max_depth = 1
C8_Witness ==
    /\ site = "chain"
    /\ config.max_depth = 1
    /\ mainpc = "done"
    /\ Succeededs = {Root, Page(<<"/", "a">>)}

\* C9: every recorded URL but the seed has a recorded parent and is one
\* deeper than it; the seed alone has depth 0 and no parent; the items in
\* the queue and in the workers' hands carry the recorded depth and parent.
C9_DepthOfParent ==
    /\ \A u \in DOMAIN visualizer.pages :
          LET p == visualizer.pages[u] IN
          IF u = seed THEN p.depth = 0 /\ p.parent_url = None
          ELSE /\ p.parent_url \in DOMAIN visualizer.pages
               /\ p.depth = DepthOf(p.parent_url) + 1
    /\ DOMAIN visualizer.pages = _seen_urls
    /\ \A i \in 1..Len(_queue) :
          LET it == _queue[i] IN
          /\ it.url \in DOMAIN visualizer.pages
          /\ it.depth = DepthOf(it.url)
          /\ it.parent_url = visualizer.pages[it.url].parent_url
    /\ \A w \in Workers :
          item[w] # NoItem =>
              /\ item[w].depth = DepthOf(item[w].url)
              /\ item[w].parent_url = visualizer.pages[item[w].url].parent_url

\* C9 witness: a page two links away from the seed is recorded
C9_Witness == \E u \in DOMAIN visualizer.pages : DepthOf(u) = 2

\* the admission predicate: scheme http or https, same site as the seed, no
\* exclude pattern matches
Admissible(url) ==
    /\ url[1] \in {"http", "https"}
    /\ tldextract(url[3]).registered_domain
           = tldextract(config.root_url.netloc).registered_domain
    /\ config.stay_on_subdomain =>
           tldextract(url[3]).subdomain = tldextract(config.root_url.netloc).subdomain
    /\ \A i \in 1..Len(exclude_patterns) : ExtOf(url[Len(url)]) \notin exclude_patterns[i]

\* C10: every admitted URL, the seed included, has scheme http or https, is
\* same-site with the seed and matches no exclude pattern.
C10_AllAdmissible == \A u \in _seen_urls : Admissible(u)

\* C10, amended: every admitted URL but the seed satisfies the admission
\* predicate; the seed is admitted unchecked, has scheme http or https and
\* is same-site with itself.
C10_ChildrenAdmissible ==
    /\ \A u \in _seen_urls \ {seed} : Admissible(u)
    /\ seed \in _seen_urls
    /\ seed[1] \in {"http", "https"}
    /\ tldextract(seed[3]) = tldextract(config.root_url.netloc)

\* C10 witness: a page with links that admission must drop has had its
\* links queued
C10_Witness ==
    /\ site = "mixed"
    /\ Root \in Succeededs
    /\ Page(<<"/", "a">>) \in _seen_urls
    /\ \E h \in SiteLinks(site, Root) : ~ Admissible(_normalize_url(h))

\* StorageManager.saved_count, the value crawl() returns
saved_count == Len(_saved_files)

\* the SUCCESS events announced so far, over all URLs
SuccessEvents ==
    { p \in UNION { {u} \X (1..Len(events[u])) : u \in DOMAIN events } :
        events[p[1]][p[2]] = "SUCCESS" }

\* C11: the number of pages storage has recorded as saved equals the number
\* of SUCCESS events announced, in every state and so when crawl() returns
\* with saved_count, whether or not a save or a later step raised; every
\* saved URL has a SUCCESS event and no URL is saved twice.
C11_SavedEqualsSuccess ==
    /\ saved_count = Cardinality(SuccessEvents)
    /\ saved_count = visualizer.stats.pages_crawled
    /\ \A i \in 1..Len(_saved_files) :
          CountEv(EventsOf(_saved_files[i]), {"SUCCESS"}) = 1
    /\ \A i, j \in 1..Len(_saved_files) : i # j => _saved_files[i] # _saved_files[j]
    /\ mainpc = "done" =>
          saved_count = Cardinality({u \in DOMAIN events :
                                        CountEv(events[u], {"SUCCESS"}) > 0})

\* C11 witness: crawl() has returned from a run in which one save raised,
\* one page raised after its save, and a page was saved
C11_Witness ==
    /\ mainpc = "done"
    /\ saved_count >= 1
    /\ \E u \in DOMAIN visualizer.pages : visualizer.pages[u].error = SaveError
    /\ \E u \in DOMAIN visualizer.pages : visualizer.pages[u].error = QueueError

\* a run in which every admitted URL was fetched, reduced and saved
FailureFree ==
    \A u \in _seen_urls : EventsOf(u) = <<"discovered", "CRAWLING", "SUCCESS">>

\* the URLs a crawl that takes the pages level by level admits: the seed and,
\* level after level while the depth test passes, the admissible links of
\* the level's pages that are new
RECURSIVE Levels(_, _, _, _, _)
Levels(s, cfg, seen, level, depth) ==
    IF level = {} \/ ~ (cfg.max_depth = NoDepthLimit \/ depth < cfg.max_depth) THEN seen
    ELSE LET new == UNION { _extract_links(s, cfg, u) : u \in level } \ seen
         IN  Levels(s, cfg, seen \cup new, new, depth + 1)

BreadthFirst(s, cfg) ==
    Levels(s, cfg, {_normalize_url(cfg.root_url)}, {_normalize_url(cfg.root_url)}, 0)

SavedUrls == { _saved_files[i] : i \in 1..Len(_saved_files) }

\* C12: for a site and a configuration, a run in which no page fails saves
\* one set of URLs whatever the interleaving of the workers: the set the
\* level-by-level crawl saves.
C12_SavedSetDetermined ==
    (mainpc = "done" /\ FailureFree) => SavedUrls = BreadthFirst(site, config)

\* some run of two workers does save the level-by-level set, /y included
C12_LevelOrderRun ==
    /\ mainpc = "done" /\ FailureFree
    /\ site = "diamond" /\ config.max_depth = 3 /\ config.max_concurrent = 2
    /\ SavedUrls = BreadthFirst(site, config)
    /\ Page(<<"/", "y">>) \in SavedUrls

\* with one worker the saved set is the level-by-level set
C12_OneWorkerDetermined ==
    config.max_concurrent = 1 => C12_SavedSetDetermined

\* the workers inside the permit-guarded section of _process_page
InSection == {w \in Workers : pc[w] \in {"fetch", "save", "delay"}}

\* C13: at most max_concurrent pages are inside the permit-guarded section
\* at once, the permits held and free add up to max_concurrent, and a worker
\* that comes to the section with an item finds a free permit.
C13_PermitBound ==
    /\ Cardinality(InSection) <= config.max_concurrent
    /\ _semaphore >= 0
    /\ _semaphore + Cardinality(InSection) = config.max_concurrent
    /\ \A w \in Workers : pc[w] = "got" => _semaphore > 0

\* C13 witness: every permit is held, by two workers
C13_Witness ==
    /\ config.max_concurrent = 2
    /\ Cardinality(InSection) = 2
    /\ _semaphore = 0

\* a transient failure: status >= 500 with an HTML content type, a
\* connection error, a timeout
Transient(r) ==
    \/ r.exc \in {"TimeoutError", "ClientError"}
    \/ r.exc = "" /\ r.html /\ r.status \in {500, 503}

HtmlOk(r) == r.exc = "" /\ r.html /\ r.status = 200

LastResponse == fetch.responses[Len(fetch.responses)]

\* C14: _fetch_page makes at most max_retries GET attempts; after a
\* transient failure the loop goes on while attempts remain, and only after
\* one; the first HTML 200 response ends the loop with the body, and the body
\* is returned for nothing else; after max_retries failed attempts the
\* result is empty; 500, 503, 200 with max_retries = 3 yields the body on
\* the third attempt.
C14_RetryLoop ==
    /\ Len(fetch.responses) <= fetch.max_retries
    /\ fetch.attempt <= fetch.max_retries
    /\ \A i \in 1..(Len(fetch.responses) - 1) : Transient(fetch.responses[i])
    /\ (fetch.responses # <<>> /\ Transient(LastResponse)) =>
          /\ fetch.attempt = Len(fetch.responses)
          /\ Len(fetch.responses) < fetch.max_retries => fetch.result = "running"
          /\ Len(fetch.responses) = fetch.max_retries => fetch.result \in {"running", "None"}
    /\ (fetch.responses # <<>> /\ HtmlOk(LastResponse)) => fetch.result = "body"
    /\ fetch.result = "body" => fetch.responses # <<>> /\ HtmlOk(LastResponse)
    /\ (fetch.result = "running" /\ Len(fetch.responses) = fetch.max_retries) =>
          ENABLED FetchExhausted /\ ~ ENABLED FetchOk
    /\ (/\ fetch.max_retries = 3
        /\ Len(fetch.responses) = 3
        /\ fetch.responses[1] = [exc |-> "", status |-> 500, html |-> TRUE]
        /\ fetch.responses[2] = [exc |-> "", status |-> 503, html |-> TRUE]
        /\ fetch.responses[3] = [exc |-> "", status |-> 200, html |-> TRUE]) =>
          fetch.result = "body" /\ fetch.sleeps = <<1, 2>>

\* C14 witness: 500, 503, 200 with max_retries = 3
C14_Witness ==
    /\ fetch.max_retries = 3
    /\ fetch.responses = << [exc |-> "", status |-> 500, html |-> TRUE],
                            [exc |-> "", status |-> 503, html |-> TRUE],
                            [exc |-> "", status |-> 200, html |-> TRUE] >>
    /\ fetch.result = "body"

\* C14 witness of exhaustion: three failed attempts, the result is empty
C14_Exhausted ==
    /\ fetch.max_retries = 3
    /\ Len(fetch.responses) = 3
    /\ \A i \in 1..3 : Transient(fetch.responses[i])
    /\ fetch.result = "None"

\* a response that is not HTML (whatever its status), a 404, a 410, another
\* 4xx
Permanent(r) ==
    /\ r.exc = ""
    /\ \/ ~ r.html
       \/ r.status \in {404, 410}
       \/ r.status >= 400 /\ r.status <= 499

PageError(url) == visualizer.pages[url].error

\* the recorded pages and the queued items that page url submitted
ChildrenOf(url) ==
    {u \in DOMAIN visualizer.pages : visualizer.pages[u].parent_url = url}
      \cup {_queue[i].url : i \in {j \in 1..Len(_queue) : _queue[j].parent_url = url}}

\* the workers that hold a dequeued item
Holding == {w \in Workers : item[w] # NoItem}

\* every put is matched by a queued item, an item in a worker's hands or a
\* task_done
ItemsAccounted == unfinished = Len(_queue) + Cardinality(Holding)

\* C16: a page whose fetch came back empty is announced SKIPPED (after
\* discovered and CRAWLING, with the reason), is not saved, has submitted no
\* link, and its worker has released the permit and marked the item done.
C16_EmptyFetchSkipped ==
    /\ \A u \in DOMAIN visualizer.pages :
          PageError(u) = SkipReason =>
              /\ StatusOf(u) = "SKIPPED"
              /\ EventsOf(u) = <<"discovered", "CRAWLING", "SKIPPED">>
              /\ u \notin SavedUrls
              /\ ChildrenOf(u) = {}
              /\ \A w \in Workers : item[w].url # u
    /\ \A u \in DOMAIN visualizer.pages :
          StatusOf(u) = "SKIPPED" => PageError(u) = SkipReason
    /\ ItemsAccounted
    /\ _semaphore = config.max_concurrent
                      - Cardinality({w \in Workers : pc[w] \in {"fetch", "save", "delay"}})

\* C16 witness: a page one link from the seed was skipped, and with every
\* permit free again
C16_Witness ==
    /\ \E u \in DOMAIN visualizer.pages :
          PageError(u) = SkipReason /\ DepthOf(u) = 1 /\ SiteLinks(site, u) # {}
    /\ _semaphore = config.max_concurrent
    /\ mainpc = "done"

\* C17: a page for which link extraction or reduction raised is announced
\* FAILED with the exception message (after discovered and CRAWLING), is not
\* saved, and has submitted none of its links.
C17_ReduceFailure ==
    \A u \in DOMAIN visualizer.pages :
        PageError(u) = ReduceError =>
            /\ StatusOf(u) = "FAILED"
            /\ EventsOf(u) = <<"discovered", "CRAWLING", "FAILED">>
            /\ u \notin SavedUrls
            /\ ChildrenOf(u) = {}

\* C17 witness: reduction raised for a page that has links to follow, and
\* the depth limit would have let them in
C17_Witness ==
    \E u \in DOMAIN visualizer.pages :
        /\ PageError(u) = ReduceError
        /\ _extract_links(site, config, u) \ _seen_urls # {}
        /\ config.max_depth = NoDepthLimit

\* in this step worker w ends the processing of its page with FAILED
Fails(w) ==
    /\ item[w] # NoItem
    /\ EventsOf(item[w].url) # <<>>
    /\ item[w].url \in DOMAIN events'
    /\ Len(events'[item[w].url]) = Len(EventsOf(item[w].url)) + 1
    /\ events'[item[w].url][Len(events'[item[w].url])] = "FAILED"

MergedUrls == { cli.merged[i] : i \in 1..Len(cli.merged) }

\* C19: merge_results is called at most once in a run; while it runs and
\* after it, every worker has exited, no save_page call is under way, the
\* queue is empty and the saved-files list no longer changes; the merged
\* document has one section for every saved page.
C19_MergeAfterWorkers ==
    /\ [](cli.merges <= 1)
    /\ []((mainpc = "merge" \/ cli.merges > 0) =>
             /\ \A w \in Workers : pc[w] = "exited" /\ item[w] = NoItem
             /\ _queue = <<>>
             /\ unfinished = 0)
    /\ []((mainpc = "exit" /\ cli.exit_code = 0 /\ ~ cli.no_merge) =>
             /\ cli.merges = 1
             /\ MergedUrls = SavedUrls
             /\ Len(cli.merged) = Len(_saved_files))
    /\ [][cli.merges > 0 => _saved_files' = _saved_files]_vars

\* C19 witness: the merge has run over three saved pages
C19_Witness ==
    /\ mainpc = "exit"
    /\ cli.merges = 1
    /\ Len(cli.merged) = 3
    /\ config.max_concurrent = 2

\* the exit codes of a run that has ended
ExitCodes ==
    mainpc = "exit" =>
        /\ cli.exit_code \in {0, 1, 130}
        /\ cli.exit_code = 130 <=> cli.interrupted # ""
        /\ cli.exit_code = 0 <=>
               (cli.interrupted = "" /\ cli.error = "" /\ Len(_saved_files) >= 1)
        /\ cli.exit_code = 1 <=>
               (cli.interrupted = "" /\ (cli.error # "" \/ Len(_saved_files) = 0))
        /\ (cli.exit_code = 0 /\ Len(_saved_files) >= 1) =>
               Cardinality({u \in DOMAIN events : CountEv(events[u], {"SUCCESS"}) > 0}) >= 1

C21_Idempotent == norm.step = "again" => norm.ccu = norm.cu

\* idempotence on the hrefs whose path does not end in two or more "/"
C21_IdempotentOneSlash ==
    (/\ norm.step = "again"
     /\ ~ (Len(norm.u.path) >= 2 /\ norm.u.path[Len(norm.u.path)] = "/"
             /\ norm.u.path[Len(norm.u.path) - 1] = "/"))
        => norm.ccu = norm.cu


\* the raw key=value pairs of a query
ParamSet(q) == { q[i] : i \in DOMAIN q }

\* u and v differ at most in the order of their query parameters and in their fragment
SameButOrderOrFragment(u, v) ==
    /\ u.scheme = v.scheme /\ u.netloc = v.netloc /\ u.path = v.path
    /\ Len(u.query) = Len(v.query) /\ ParamSet(u.query) = ParamSet(v.query)

\* u and v differ in the set of their raw key=value pairs, and in nothing else
DifferentPairs(u, v) ==
    /\ u.scheme = v.scheme /\ u.netloc = v.netloc /\ u.path = v.path
    /\ u.fragment = v.fragment
    /\ ParamSet(u.query) # ParamSet(v.query)

\* C22: two hrefs that differ only in the order of their query parameters or
\* only in their fragment have the same canonical form, and two hrefs whose
\* sets of raw key=value pairs differ have distinct canonical forms.
C22_QueryCanonical ==
    norm.step = "normalized" =>
        /\ SameButOrderOrFragment(norm.u, norm.v) => norm.cu = norm.cv
        /\ DifferentPairs(norm.u, norm.v) => norm.cu # norm.cv

\* the first half of C22, and the second half for pairs that differ in more
\* than letter case
C22_OrderAndFragment ==
    norm.step = "normalized" =>
        /\ SameButOrderOrFragment(norm.u, norm.v) => norm.cu = norm.cv
        /\ (DifferentPairs(norm.u, norm.v)
              /\ { Lower(p) : p \in ParamSet(norm.u.query) }
                     # { Lower(p) : p \in ParamSet(norm.v.query) })
               => norm.cu # norm.cv


\* the page the seed of the site "query" links to under two orders of its parameters
QueryPage == Root \o <<"/", "x", "?", "a=1", "&", "b=2">>

\* C22 in a crawl: the page is admitted once, fetched once and announced
\* SUCCESS at most once, and the page with another value of a is kept apart
C22_FetchedOnce ==
    site = "query" =>
        /\ CallsOf(calls, QueryPage).admitted <= 1
        /\ CountEv(EventsOf(QueryPage), {"CRAWLING"}) <= 1
        /\ CountEv(EventsOf(QueryPage), {"SUCCESS"}) <= 1
        /\ (mainpc = "done" /\ FailureFree) =>
              /\ EventsOf(QueryPage) = <<"discovered", "CRAWLING", "SUCCESS">>
              /\ Root \o <<"/", "x", "?", "a=2", "&", "b=2">> \in SavedUrls
              /\ Len(_saved_files) = 4


\* C23: on the cycle / -> /a -> /b -> / the link of /b to "/" has the seed's
\* canonical form, so that the seed's page is admitted and fetched once, and
\* a crawl without depth limit in which no page fails crawls three pages.
C23_SeedOnce ==
    site = "cycle" =>
        /\ _normalize_url(Doc(<<"/">>)) = seed
        /\ (mainpc = "done" /\ FailureFree /\ config.max_depth = NoDepthLimit) =>
              /\ Len(_saved_files) = 3
              /\ visualizer.stats.pages_crawled = 3

\* what the code does on the cycle: the seed is admitted without "/" and the
\* link of /b with it, and the seed's page is fetched and saved under both
C23_SeedTwice ==
    (site = "cycle" /\ mainpc = "done" /\ FailureFree /\ config.max_depth = NoDepthLimit) =>
        /\ SavedUrls = {Root, Page(<<"/">>), Page(<<"/", "a">>), Page(<<"/", "b">>)}
        /\ Len(_saved_files) = 4


ApiPage == <<"https", "://", "api.site.com", "/">>

\* C24: with stay_on_subdomain no admitted URL has a subdomain other than
\* the seed's (api.site.com is never admitted from docs.site.com); without
\* it the link to api.site.com is admitted and its page crawled in a run
\* without failures that follows the seed's links; a URL of another
\* registered domain is never admitted in either mode.
C24_Subdomain ==
    LET root == tldextract(config.root_url.netloc) IN
    /\ \A u \in _seen_urls :
          tldextract(u[3]).registered_domain = root.registered_domain
    /\ config.stay_on_subdomain =>
          \A u \in _seen_urls : tldextract(u[3]).subdomain = root.subdomain
    /\ (~ config.stay_on_subdomain /\ site = "mixed" /\ mainpc = "done" /\ FailureFree
           /\ WithinDepth(config, 0)) => ApiPage \in SavedUrls

\* C24 witness: without stay_on_subdomain the page of api.site.com was crawled
C24_Witness ==
    /\ site = "mixed"
    /\ ~ config.stay_on_subdomain
    /\ mainpc = "done"
    /\ ApiPage \in SavedUrls
    /\ <<"https", "://", "other.org", "/">> \notin _seen_urls

\* with stay_on_subdomain the seed's links were queued and api.site.com dropped
C24_WitnessDropped ==
    /\ site = "mixed"
    /\ config.stay_on_subdomain
    /\ mainpc = "done"
    /\ Page(<<"/", "a">>) \in SavedUrls
    /\ ApiPage \notin _seen_urls


\* the URLs that have left the queue
Dequeued == _seen_urls \ { _queue[i].url : i \in 1..Len(_queue) }

\* C25: a worker's poll takes the oldest item of the queue, and no item that
\* left the queue before it is deeper than it, whatever max_concurrent is.
C25_BreadthFirst ==
    [][ \A w \in Workers :
          (pc[w] = "poll" /\ pc'[w] = "got") =>
              /\ item'[w] = Head(_queue)
              /\ _queue' = Tail(_queue)
              /\ \A u \in Dequeued : DepthOf(u) <= item'[w].depth ]_vars

\* the first half of C25 for every max_concurrent, the second half for one worker
C25_FifoAndOneWorker ==
    [][ \A w \in Workers :
          (pc[w] = "poll" /\ pc'[w] = "got") =>
              /\ item'[w] = Head(_queue)
              /\ _queue' = Tail(_queue)
              /\ config.max_concurrent = 1 =>
                    \A u \in Dequeued : DepthOf(u) <= item'[w].depth ]_vars


LowerAll(s) == [i \in 1..Len(s) |-> Lower(s[i])]

\* u and v differ in the letter case of their path or query, and in nothing else
CaseVariants(u, v) ==
    /\ u.scheme = v.scheme /\ u.netloc = v.netloc /\ u.fragment = v.fragment
    /\ u.path # v.path \/ u.query # v.query
    /\ LowerAll(u.path) = LowerAll(v.path)
    /\ LowerAll(u.query) = LowerAll(v.query)

\* C26: the canonical form has the scheme and the host in lower case, and
\* two hrefs that differ only in the letter case of their path or query have
\* distinct canonical forms.
C26_CaseKept ==
    norm.step = "normalized" =>
        /\ norm.cu[1] = Lower(norm.u.scheme)
        /\ norm.cu[3] = Lower(norm.u.netloc)
        /\ CaseVariants(norm.u, norm.v) => norm.cu # norm.cv

\* what the code does: the whole canonical form is in lower case
C26_AllLower ==
    norm.step = "normalized" =>
        /\ norm.cu = LowerAll(norm.cu)
        /\ CaseVariants(norm.u, norm.v) => norm.cu = norm.cv

\* C26 in a crawl: the links /A and /a of the seed are admitted as two pages
C26_TwoPages ==
    (site = "case" /\ mainpc = "done" /\ FailureFree) =>
        Cardinality({u \in _seen_urls : DepthOf(u) = 1}) = 2


\* the hrefs inside the main-content element of the page at url
MainLinks(s, url) ==
    IF s = "nav"
    THEN IF url \in DOMAIN NavSiteMain THEN NavSiteMain[url] ELSE {}
    ELSE SiteLinks(s, url)

\* C27: every URL admitted from a page is the canonical form of an href
\* inside the page's main-content element, and a run without failures and
\* depth limit crawls the pages reached through such hrefs and no other.
C27_MainContentOnly ==
    /\ \A u \in DOMAIN visualizer.pages :
          visualizer.pages[u].parent_url # None =>
              u \in { _normalize_url(h) :
                        h \in MainLinks(site, visualizer.pages[u].parent_url) }
    /\ (site = "nav" /\ mainpc = "done" /\ FailureFree) =>
          SavedUrls = {Root, Page(<<"/", "a">>), Page(<<"/", "b">>)}

\* what the code does: the hrefs of the whole document are followed, those
\* of the nav and footer elements included
C27_WholeDocument ==
    /\ \A u \in DOMAIN visualizer.pages :
          visualizer.pages[u].parent_url # None =>
              u \in { _normalize_url(h) :
                        h \in SiteLinks(site, visualizer.pages[u].parent_url) }
    /\ (site = "nav" /\ mainpc = "done" /\ FailureFree) =>
          SavedUrls = {Root, Page(<<"/", "a">>), Page(<<"/", "b">>),
                       Page(<<"/", "n">>), Page(<<"/", "f">>)}


\* the event loop runs every ready task of the crawl of LinkSpec
FairLinkSpec ==
    /\ LinkSpec
    /\ \A w \in 1..MaxWorkers : WF_vars(Worker(w))
    /\ WF_vars(JoinReturns)
    /\ WF_vars(GatherReturns)

\* the workers that have not returned from _worker
Alive == {w \in Workers : pc[w] # "exited"}

\* C28: while an admitted item is queued or being processed some worker is
\* still in its loop, whatever workers have left through the poll-timeout
\* check; and queue.join() returns.
C28_WorkerAlive ==
    /\ [](unfinished > 0 => Alive # {})
    /\ <>(mainpc # "join")

\* C28 witness: a worker has left through the poll-timeout check while an
\* item is still to be processed, and another worker is in its loop
C28_Witness ==
    /\ mainpc = "join"
    /\ unfinished > 0
    /\ \E w \in Workers : pc[w] = "exited"
    /\ Alive # {}


\* the workers inside _process_page
InPage == {w \in Workers : pc[w] \in {"fetch", "save", "delay"}}

\* C29: _active_tasks stays within 0..max_concurrent and counts the workers
\* inside page processing; the queue's unfinished count is never negative
\* and counts the items queued or held; a worker that enters page processing
\* increments the counter once, and a worker that leaves it (by return, skip,
\* caught exception or cancellation) decrements it once and marks one item
\* done.
C29_CounterMatched ==
    /\ [](/\ 0 <= _active_tasks
          /\ _active_tasks <= config.max_concurrent
          /\ _active_tasks = Cardinality(InPage)
          /\ unfinished >= 0
          /\ unfinished = Len(_queue) + Cardinality(Holding))
    /\ [][\A w \in Workers :
            /\ (w \notin InPage /\ pc'[w] \in {"fetch", "save", "delay"}) =>
                  /\ _active_tasks' = _active_tasks + 1
                  /\ unfinished' = unfinished
            /\ (w \in InPage /\ pc'[w] \notin {"fetch", "save", "delay"}) =>
                  /\ _active_tasks' = _active_tasks - 1
                  /\ unfinished' = unfinished + (Len(_queue') - Len(_queue)) - 1
                  /\ item'[w] = NoItem]_vars

\* C29 witness: a worker was cancelled inside page processing (its page is
\* left at CRAWLING in no worker's hands) while the other worker goes on
C29_Witness ==
    /\ cli.interrupted = "join"
    /\ \E u \in DOMAIN visualizer.pages :
          /\ StatusOf(u) = "CRAWLING"
          /\ \A w \in Workers : item[w].url # u
    /\ _active_tasks = 1


\* the number of links of a shortest path from the seed to url in the graph
\* of the admissible links of the site (-1 when there is none)
RECURSIVE DistanceFrom(_, _, _, _, _, _)
DistanceFrom(s, cfg, seen, level, d, url) ==
    IF url \in level THEN d
    ELSE IF level = {} THEN -1
    ELSE LET new == UNION { _extract_links(s, cfg, u) : u \in level } \ seen
         IN  DistanceFrom(s, cfg, seen \cup new, new, d + 1, url)

Distance(url) == DistanceFrom(site, config, {seed}, {seed}, 0, url)

\* no page has failed or was skipped so far
NoFailure ==
    \A u \in DOMAIN events :
        \A i \in 1..Len(events[u]) : events[u][i] \notin {"FAILED", "SKIPPED"}

\* the URLs of the site within max_depth links of the seed
WithinReach ==
    { u \in BreadthFirst(site, [config EXCEPT !.max_depth = NoDepthLimit]) :
        config.max_depth = NoDepthLimit \/ Distance(u) <= config.max_depth }

\* C30: while no page fails, the depth recorded for an admitted URL is its
\* shortest link distance from the seed, whatever max_concurrent and the
\* order in which the fetches complete; and a run without failures crawls
\* every URL whose distance is at most max_depth.
C30_ShortestDepth ==
    /\ NoFailure => \A u \in DOMAIN visualizer.pages : DepthOf(u) = Distance(u)
    /\ (mainpc = "done" /\ FailureFree) => WithinReach \subseteq SavedUrls

\* with one worker the claim holds
C30_OneWorkerShortest ==
    config.max_concurrent = 1 => C30_ShortestDepth

\* the recorded depth is never less than the distance
C30_DepthAtLeastDistance ==
    \A u \in DOMAIN visualizer.pages : DepthOf(u) >= Distance(u) /\ Distance(u) >= 0


\* URLs the observer may be called with, registered or not
ObserverUrls ==
    DOMAIN visualizer.pages \cup {Page(<<"/", "a">>), Page(<<"/", "z">>)}

\* add_page for a registered URL and update_page for an unregistered one
\* change nothing
ObserverGuards ==
    /\ \A u \in DOMAIN visualizer.pages : \A d \in 0..MaxDepthCfg :
          add_page(visualizer, u, d, seed) = visualizer
    /\ \A u \in ObserverUrls \ DOMAIN visualizer.pages :
          \A s \in Terminal \cup {"CRAWLING"} :
              update_page(visualizer, u, s, NoError) = visualizer

\* C31: pages_discovered is the number of page records; pages_remaining is
\* never negative and is 0 when crawl() has returned; add_page for a
\* registered URL and update_page for an unregistered URL change nothing.
C31_StatsConsistent ==
    /\ visualizer.stats.pages_discovered = Cardinality(DOMAIN visualizer.pages)
    /\ pages_remaining(visualizer.stats) >= 0
    /\ mainpc = "done" => pages_remaining(visualizer.stats) = 0
    /\ ObserverGuards

\* what the code gives: the claim but for the pages announced SUCCESS and
\* then FAILED, which are counted twice
C31_StatsButRequeueFailures ==
    LET twice == Cardinality({u \in DOMAIN visualizer.pages : PageError(u) = QueueError})
    IN  /\ visualizer.stats.pages_discovered = Cardinality(DOMAIN visualizer.pages)
        /\ pages_remaining(visualizer.stats) + twice >= 0
        /\ mainpc = "done" => pages_remaining(visualizer.stats) + twice = 0
        /\ ObserverGuards


ServerError(r) == r.exc = "" /\ r.html /\ r.status >= 500

\* the backoff sleeps of a call in which the failed attempts in S (numbered
\* from 1, the first attempts of the call) were followed by a sleep
SleepsAfter(S) == [k \in 1..Cardinality(S) |-> 2 ^ (k - 1)]

\* C32: after failed attempt k (0-based) _fetch_page sleeps 2^k seconds when
\* k < max_retries - 1 and does not sleep when k = max_retries - 1, for 5xx
\* responses, timeouts and connection errors alike; a call that ends after
\* max_retries failed attempts has slept max_retries - 1 times.
C32_BackoffBeforeRetryOnly ==
    /\ fetch.sleeps =
          SleepsAfter({ i \in 1..Len(fetch.responses) :
                          Transient(fetch.responses[i]) /\ i - 1 < fetch.max_retries - 1 })
    /\ (fetch.result = "None" /\ fetch.responses # <<>> /\ Transient(LastResponse)) =>
          Len(fetch.sleeps) = fetch.max_retries - 1

\* what the code does: it also sleeps after the final attempt when that
\* attempt got a 5xx response
C32_BackoffAfterLastServerError ==
    fetch.sleeps =
        SleepsAfter({ i \in 1..Len(fetch.responses) :
                        /\ Transient(fetch.responses[i])
                        /\ \/ i - 1 < fetch.max_retries - 1
                           \/ ServerError(fetch.responses[i]) })

====
